---- MODULE Spec2Model ----
(***************************************************************************)
(* DesiShield: the App component's session state (src/App.tsx), the        *)
(* analysis client (src/services/gemini.ts) and the two external           *)
(* collaborators they talk to (the classifier and the browser's speech     *)
(* recognition object).  Strings that the code inspects character by       *)
(* character (the message text) are sequences of one-character strings;    *)
(* strings the code only stores and shows are TLA+ strings.                *)
(* last, resultText, blob and view observe the run: the handler that ran   *)
(* last, the text whose analysis gave the result on show, the text last    *)
(* handed to the download, and the risk band last drawn.                   *)
(***************************************************************************)
EXTENDS Integers, Sequences, FiniteSets, TLC

VARIABLES screen, inputText, isAnalyzing, result, logs, isRecording, error,
          hasRecognition, apiKey, calls, recognition, now, resultText, last,
          blob, view

vars == <<screen, inputText, isAnalyzing, result, logs, isRecording, error,
          hasRecognition, apiKey, calls, recognition, now, resultText, last,
          blob, view>>

----------------------------------------------------------------------------
(* Bounds of the model.                                                    *)

\* classifier calls that may be outstanding at once
MaxInFlight == 2
\* entries the ledger may hold
MaxLogs == 2
\* last value of the wall clock (seconds, as toLocaleString shows them)
MaxTime == 1
\* how many of the DEMO_CASES buttons are modelled
NumDemo == 1

----------------------------------------------------------------------------
(* Values.                                                                 *)

\* useState<string | null>(null): the error slot holds a message or null
NULL == "null"

\* useState<AnalysisResult | null>(null): no result is the empty sequence,
\* a result r is the one-element sequence <<r>>
None == << >>

Some(r) == <<r>>

\* what reading a field that a JSON object does not have yields
UNDEFINED == "undefined"

Screens == {"home", "text-scan", "voice-scan"}

Labels == {"Safe", "Suspicious", "Phishing"}

\* the two labels the feedback buttons pass to handleFeedback
FeedbackLabels == {"Safe", "Phishing"}

DemoDigits == <<"1", "2", "3", "4">>

\* DEMO_CASES[i].text, abbreviated to a two-character non-blank text
DEMO_CASES == [i \in 1..NumDemo |-> <<"D", DemoDigits[i]>>]

\* what the user may leave in the textarea (empty, whitespace only, a message)
TypedTexts == {<< >>, <<" ">>, <<"h", "i">>}

\* event.results[0][0].transcript of a final speech result
Transcripts == {<<"o", "k">>}

MsgNoKey == "API Key is missing. Please check your environment configuration."
MsgAnalysisDefault == "An error occurred during analysis."
MsgSpeechUnsupported == "Speech recognition not supported in this browser."
MsgSpeechFailed == "Speech recognition failed. Try again."
MsgTransport == "Failed to fetch"
MsgSyntax == "Unexpected token in JSON"

\* objects the classifier may send back as response.text
LotteryScam ==
  [label |-> "Phishing", score |-> 92, language |-> "Hinglish",
   reasoning |-> "prize bait", triggeredRules |-> <<"Reward", "BadLink">>,
   threatType |-> "Lottery Scam",
   highlightedTerms |-> <<"lottery prize", "Bank Details">>]

ScoreTooHigh == [LotteryScam EXCEPT !.score = 150]

LabelUnknown == [LotteryScam EXCEPT !.label = "Unknown", !.score = 50]

ReasoningMissing ==
  [LotteryScam EXCEPT !.label = "Safe", !.score = 10, !.reasoning = UNDEFINED]

Payloads == {LotteryScam, ScoreTooHigh, LabelUnknown, ReasoningMissing}

\* how one generateContent call can end: the promise rejects (with or
\* without a message), or resolves with a body that is or is not JSON
Outcomes ==
  {[kind |-> "reject", message |-> m, value |-> None] : m \in {MsgTransport, ""}}
  \cup {[kind |-> "garbled", message |-> MsgSyntax, value |-> None]}
  \cup {[kind |-> "json", message |-> "", value |-> Some(p)] : p \in Payloads}

NoOutcome == [kind |-> "none", message |-> "", value |-> None]

----------------------------------------------------------------------------
(* String helpers.                                                         *)

WhiteSpace == {" ", "\t", "\n"}

RECURSIVE TrimStart(_)
TrimStart(s) ==
  IF s # << >> /\ Head(s) \in WhiteSpace THEN TrimStart(Tail(s)) ELSE s

RECURSIVE TrimEnd(_)
TrimEnd(s) ==
  IF s # << >> /\ s[Len(s)] \in WhiteSpace
    THEN TrimEnd(SubSeq(s, 1, Len(s) - 1))
    ELSE s

\* trim() left out: the text is taken as typed
TrimMutant(s) == s

\* String.prototype.trim
Trim(s) == TrimEnd(TrimStart(s))

\* !s.trim(): the empty string is falsy
IsBlank(s) == Trim(s) = << >>

\* runAnalysis() without an argument: in `textToAnalyze || inputText` an
\* omitted argument and the empty string are both falsy
NoArgument == << >>

\* a || b on strings
OrElse(a, b) == IF a = << >> THEN b ELSE a

----------------------------------------------------------------------------
(* The history record: the handler that ran last and what it was given.    *)

\* for a settled call: whether the call had been overtaken, and how it ended
\* ("conforming" / "violating": a JSON object that meets / breaks the
\* AnalysisResult schema; "failed": no object was decoded)
Did(op) == [op |-> op, stale |-> FALSE, kind |-> "none"]

Init ==
  /\ screen = "home"
  /\ inputText = << >>
  /\ isAnalyzing = FALSE
  /\ result = None
  /\ logs = << >>
  /\ isRecording = FALSE
  /\ error = NULL
  /\ hasRecognition \in BOOLEAN
  /\ apiKey \in BOOLEAN
  /\ calls = << >>
  /\ recognition = "inactive"
  /\ now = 0
  /\ resultText = << >>
  /\ last = Did("init")
  /\ blob = << >>
  /\ view = None

----------------------------------------------------------------------------
(* Navigation and the input field.                                         *)

\* true while an async function that threw before its first network call
\* still has its rejection queued: microtasks run before the next event
MicrotaskPending == \E i \in 1..Len(calls) : ~calls[i].sent

\* the two cards and the two buttons of the home screen
GoTo(s) ==
  /\ ~MicrotaskPending
  /\ screen = "home"
  /\ s \in {"text-scan", "voice-scan"}
  /\ screen' = s
  /\ UNCHANGED <<inputText, isAnalyzing, result, logs, isRecording, error,
                 hasRecognition, apiKey, calls, recognition, now>>

\* a back button that also empties the ledger
BackHomeMutant ==
  /\ ~MicrotaskPending
  /\ screen # "home"
  /\ screen' = "home"
  /\ inputText' = << >>
  /\ result' = None
  /\ error' = NULL
  /\ logs' = << >>
  /\ UNCHANGED <<isAnalyzing, isRecording, hasRecognition, apiKey,
                 calls, recognition, now>>

\* the header's back button
BackHome ==
  /\ ~MicrotaskPending
  /\ screen # "home"
  /\ screen' = "home"
  /\ inputText' = << >>
  /\ result' = None
  /\ error' = NULL
  /\ UNCHANGED <<isAnalyzing, logs, isRecording, hasRecognition, apiKey,
                 calls, recognition, now>>

\* the textarea's onChange
TypeText(t) ==
  /\ ~MicrotaskPending
  /\ screen = "text-scan"
  /\ t # inputText
  /\ inputText' = t
  /\ UNCHANGED <<screen, isAnalyzing, result, logs, isRecording, error,
                 hasRecognition, apiKey, calls, recognition, now>>

\* a Re-record button that empties the input only
ReRecordMutant ==
  /\ ~MicrotaskPending
  /\ screen = "voice-scan"
  /\ inputText # << >>
  /\ inputText' = << >>
  /\ UNCHANGED <<screen, isAnalyzing, result, logs, isRecording, error,
                 hasRecognition, apiKey, calls, recognition, now>>

\* the voice screen's Re-record button, rendered while inputText is non-empty
ReRecord ==
  /\ ~MicrotaskPending
  /\ screen = "voice-scan"
  /\ inputText # << >>
  /\ inputText' = << >>
  /\ result' = None
  /\ UNCHANGED <<screen, isAnalyzing, logs, isRecording, error,
                 hasRecognition, apiKey, calls, recognition, now>>

----------------------------------------------------------------------------
(* Analysis: runAnalysis and analyzeMessage.                               *)

\* analyzeMessage(text) up to its await: without API_KEY it throws before
\* the request, otherwise generateContent is called, whatever the text is
Request(text) == [text |-> text, sent |-> apiKey, stale |-> FALSE]

\* runAnalysis without its setError(null)
RunAnalysisMutant(textToAnalyze) ==
  LET finalContent == OrElse(textToAnalyze, inputText) IN
  IF IsBlank(finalContent)
    THEN UNCHANGED <<isAnalyzing, error, calls>>
    ELSE /\ Len(calls) < MaxInFlight
         /\ isAnalyzing' = TRUE
         /\ error' = error
         /\ calls' = Append(calls, Request(finalContent))

\* runAnalysis(textToAnalyze) up to its await
RunAnalysis(textToAnalyze) ==
  LET finalContent == OrElse(textToAnalyze, inputText) IN
  IF IsBlank(finalContent)
    THEN UNCHANGED <<isAnalyzing, error, calls>>
    ELSE /\ Len(calls) < MaxInFlight
         /\ isAnalyzing' = TRUE
         /\ error' = NULL
         /\ calls' = Append(calls, Request(finalContent))

\* disabled={isAnalyzing || !inputText.trim()} on both Analyze buttons
AnalyzeDisabled == isAnalyzing \/ IsBlank(inputText)

\* a click on an Analyze button; a disabled button delivers no click
AnalyzeClick ==
  /\ ~MicrotaskPending
  /\ screen = "text-scan" \/ (screen = "voice-scan" /\ inputText # << >>)
  /\ IF AnalyzeDisabled
       THEN UNCHANGED <<isAnalyzing, error, calls>>
       ELSE RunAnalysis(NoArgument)
  /\ UNCHANGED <<screen, inputText, result, logs, isRecording,
                 hasRecognition, apiKey, recognition, now>>

\* a click on a demo-case button
DemoClick(d) ==
  /\ ~MicrotaskPending
  /\ screen = "text-scan"
  /\ inputText' = DEMO_CASES[d]
  /\ RunAnalysis(DEMO_CASES[d])
  /\ UNCHANGED <<screen, result, logs, isRecording, hasRecognition, apiKey,
                 recognition, now>>

\* a parse that rebuilds triggeredRules back to front
JSONParseMutant(o) ==
  IF o.kind = "json"
    THEN [ok |-> TRUE,
          data |-> Some([o.value[1] EXCEPT !.triggeredRules =
                           [k \in 1..Len(@) |-> @[Len(@) + 1 - k]]]),
          message |-> ""]
    ELSE [ok |-> FALSE, data |-> None, message |-> o.message]

\* JSON.parse(response.text) as AnalysisResult: no field is looked at
JSONParse(o) ==
  IF o.kind = "json"
    THEN [ok |-> TRUE, data |-> o.value, message |-> ""]
    ELSE [ok |-> FALSE, data |-> None, message |-> o.message]

\* analyzeMessage whose key check throws an Error without a message
AnalyzeMessageMutant(call, o) ==
  IF ~call.sent
    THEN [ok |-> FALSE, data |-> None, message |-> ""]
    ELSE IF o.kind = "reject"
      THEN [ok |-> FALSE, data |-> None, message |-> o.message]
      ELSE JSONParse(o)

\* analyzeMessage: what the awaited promise settles to for a call that ends
\* with outcome o
AnalyzeMessage(call, o) ==
  IF ~call.sent
    THEN [ok |-> FALSE, data |-> None, message |-> MsgNoKey]
    ELSE IF o.kind = "reject"
      THEN [ok |-> FALSE, data |-> None, message |-> o.message]
      ELSE JSONParse(o)

\* err.message || "An error occurred during analysis."
CatchMessage(m) == IF m = "" THEN MsgAnalysisDefault ELSE m

\* the AnalysisResult interface: every field present, label one of the three
\* values, score within 0..100 (the responseSchema of analyzeMessage)
Conforms(p) ==
  /\ p.label \in Labels
  /\ p.score \in 0..100
  /\ p.language # UNDEFINED
  /\ p.reasoning # UNDEFINED
  /\ p.threatType # UNDEFINED

Kind(r) ==
  IF ~r.ok THEN "failed"
  ELSE IF Conforms(r.data[1]) THEN "conforming" ELSE "violating"

\* the calls still outstanding once call i has settled; a call issued before
\* i that is still outstanding has been overtaken
Overtake(i) ==
  [j \in 1..(Len(calls) - 1) |->
     IF j < i THEN [calls[j] EXCEPT !.stale = TRUE] ELSE calls[j + 1]]

\* a catch block that also drops the result shown
ResultAfterMutant(r) == IF r.ok THEN r.data ELSE None

\* try { setResult(data) }: a thrown error skips the setter
ResultAfter(r) == IF r.ok THEN r.data ELSE result

\* catch { setError(...) }
ErrorAfter(r) == IF r.ok THEN error ELSE CatchMessage(r.message)

\* setIsAnalyzing(false) placed in the catch block instead of finally
AnalyzingAfterMutant(r) == IF r.ok THEN isAnalyzing ELSE FALSE

\* finally { setIsAnalyzing(false) }, whatever r is
AnalyzingAfter(r) == FALSE

\* a catch block that sends the request again
SettleMutant(i, o) ==
  LET call == calls[i]
      r == AnalyzeMessage(call, o) IN
  /\ i \in 1..Len(calls)
  \* a rejection thrown before the request is a microtask and runs at
  \* once; a network completion is a task and waits for the microtasks
  /\ ~call.sent \/ ~MicrotaskPending
  /\ IF call.sent THEN o \in Outcomes ELSE o = NoOutcome
  /\ result' = ResultAfter(r)
  /\ error' = ErrorAfter(r)
  /\ isAnalyzing' = AnalyzingAfter(r)
  /\ calls' = IF r.ok \/ ~call.sent THEN Overtake(i)
                                    ELSE Append(Overtake(i), call)
  /\ UNCHANGED <<screen, inputText, logs, isRecording, hasRecognition,
                 apiKey, recognition, now>>

\* runAnalysis from its await on: try / catch / finally
Settle(i, o) ==
  LET call == calls[i]
      r == AnalyzeMessage(call, o) IN
  /\ i \in 1..Len(calls)
  \* a rejection thrown before the request is a microtask and runs at
  \* once; a network completion is a task and waits for the microtasks
  /\ ~call.sent \/ ~MicrotaskPending
  /\ IF call.sent THEN o \in Outcomes ELSE o = NoOutcome
  /\ result' = ResultAfter(r)
  /\ error' = ErrorAfter(r)
  /\ isAnalyzing' = AnalyzingAfter(r)
  /\ calls' = Overtake(i)
  /\ UNCHANGED <<screen, inputText, logs, isRecording, hasRecognition,
                 apiKey, recognition, now>>

----------------------------------------------------------------------------
(* Dictation: the record / stop control and the recognition object.        *)
(* recognition is the collaborator's own state: "inactive", "listening",   *)
(* or "stopping" (stop() was called; the service may still return what it  *)
(* captured).                                                              *)

\* handleStartRecording with setIsRecording(true) ahead of the check of
\* recognitionRef.current
StartRecordingMutant ==
  /\ ~MicrotaskPending
  /\ screen # "home"
  /\ ~isRecording
  /\ isRecording' = TRUE
  /\ IF ~hasRecognition
       THEN /\ error' = MsgSpeechUnsupported
            /\ UNCHANGED recognition
       ELSE /\ error' = NULL
            /\ recognition' = IF recognition = "inactive" THEN "listening"
                                                          ELSE recognition
  /\ UNCHANGED <<screen, inputText, isAnalyzing, result, logs,
                 hasRecognition, apiKey, calls, now>>

\* handleStartRecording, offered while isRecording is false
StartRecording ==
  /\ ~MicrotaskPending
  /\ screen # "home"
  /\ ~isRecording
  /\ IF ~hasRecognition
       THEN /\ error' = MsgSpeechUnsupported
            /\ UNCHANGED <<isRecording, recognition>>
       ELSE /\ error' = NULL
            /\ isRecording' = TRUE
            \* start() on a session that has not ended throws
            \* InvalidStateError after both setters have run
            /\ recognition' = IF recognition = "inactive" THEN "listening"
                                                          ELSE recognition
  /\ UNCHANGED <<screen, inputText, isAnalyzing, result, logs,
                 hasRecognition, apiKey, calls, now>>

\* handleStopRecording that leaves isRecording to an onend handler
handleStopRecordingMutant ==
  /\ recognition' = IF recognition = "listening" THEN "stopping"
                                                 ELSE recognition
  /\ UNCHANGED <<screen, inputText, isAnalyzing, result, logs, isRecording,
                 error, hasRecognition, apiKey, calls, now>>

\* handleStopRecording: setIsRecording(false), then stop() on the recognizer;
\* stop() on a recognizer that is not listening does nothing
handleStopRecording ==
  /\ isRecording' = FALSE
  /\ recognition' = IF recognition = "listening" THEN "stopping"
                                                 ELSE recognition
  /\ UNCHANGED <<screen, inputText, isAnalyzing, result, logs, error,
                 hasRecognition, apiKey, calls, now>>

\* recognitionRef.current is null without the capability, and
\* recognitionRef.current.stop() then throws a TypeError
StopThrows == ~hasRecognition

\* the stop button, offered while isRecording is true
StopRecording ==
  /\ ~MicrotaskPending
  /\ screen # "home"
  /\ isRecording
  /\ handleStopRecording

\* a transcript appended to the text already in the field
DictatedMutant(prev, transcript) == prev \o transcript

\* the text of the field once a transcript has been delivered
Dictated(prev, transcript) == transcript

\* onresult that resets both busy flags
OnResultMutant(transcript) ==
  /\ ~MicrotaskPending
  /\ recognition \in {"listening", "stopping"}
  /\ inputText' = Dictated(inputText, transcript)
  /\ isRecording' = FALSE
  /\ isAnalyzing' = FALSE
  /\ recognition' = "inactive"
  /\ UNCHANGED <<screen, result, logs, error, hasRecognition,
                 apiKey, calls, now>>

\* recognition.onresult: the session's only (final) result
OnResult(transcript) ==
  /\ ~MicrotaskPending
  /\ recognition \in {"listening", "stopping"}
  /\ inputText' = Dictated(inputText, transcript)
  /\ isRecording' = FALSE
  /\ recognition' = "inactive"
  /\ UNCHANGED <<screen, isAnalyzing, result, logs, error, hasRecognition,
                 apiKey, calls, now>>

\* onerror without setIsRecording(false)
OnErrorMutant ==
  /\ ~MicrotaskPending
  /\ recognition \in {"listening", "stopping"}
  /\ error' = MsgSpeechFailed
  /\ recognition' = "inactive"
  /\ UNCHANGED <<screen, inputText, isAnalyzing, result, logs, isRecording,
                 hasRecognition, apiKey, calls, now>>

\* recognition.onerror
OnError ==
  /\ ~MicrotaskPending
  /\ recognition \in {"listening", "stopping"}
  /\ isRecording' = FALSE
  /\ error' = MsgSpeechFailed
  /\ recognition' = "inactive"
  /\ UNCHANGED <<screen, inputText, isAnalyzing, result, logs,
                 hasRecognition, apiKey, calls, now>>

\* the session ends with neither a result nor an error; the component
\* registers no onend or onnomatch handler
OnEnd ==
  /\ ~MicrotaskPending
  /\ recognition \in {"listening", "stopping"}
  /\ recognition' = "inactive"
  /\ UNCHANGED <<screen, inputText, isAnalyzing, result, logs, isRecording,
                 error, hasRecognition, apiKey, calls, now>>

----------------------------------------------------------------------------
(* The feedback ledger.                                                    *)

\* the FeedbackLog object handleFeedback builds at clock reading t
NewLog(userLabel, t) ==
  [timestamp |-> t, message |-> inputText, predictedLabel |-> result[1].label,
   userLabel |-> userLabel, language |-> result[1].language,
   score |-> result[1].score]

\* setLogs(prev => [...prev, newLog])
PrependMutant(newLog, prev) == Append(prev, newLog)

\* setLogs(prev => [newLog, ...prev])
Prepend(newLog, prev) == <<newLog>> \o prev

\* the feedback and export controls placed outside the result block
ResultShownMutant == screen # "home" /\ ~isAnalyzing

\* the result block, which holds the feedback and export controls
ResultShown == screen # "home" /\ result # None /\ ~isAnalyzing

\* handleFeedback with optional chaining in place of the early return
handleFeedbackMutant(userLabel, t) ==
  /\ t \in now..MaxTime
  /\ Len(logs) < MaxLogs
  /\ now' = t
  /\ IF result = None
       THEN logs' = Prepend([timestamp |-> t, message |-> inputText,
                             predictedLabel |-> UNDEFINED,
                             userLabel |-> userLabel,
                             language |-> UNDEFINED, score |-> UNDEFINED],
                            logs)
       ELSE logs' = Prepend(NewLog(userLabel, t), logs)
  /\ UNCHANGED <<screen, inputText, isAnalyzing, result, isRecording, error,
                 hasRecognition, apiKey, calls, recognition>>

\* handleFeedback(userLabel), called when the clock reads t (it may have
\* moved on since the last reading)
handleFeedback(userLabel, t) ==
  /\ t \in now..MaxTime
  /\ Len(logs) < MaxLogs
  /\ now' = t
  /\ IF result = None
       THEN logs' = logs
       ELSE logs' = Prepend(NewLog(userLabel, t), logs)
  /\ UNCHANGED <<screen, inputText, isAnalyzing, result, isRecording, error,
                 hasRecognition, apiKey, calls, recognition>>

\* a feedback button that skips a mark the ledger already holds for this
\* message
HandleFeedbackMutant(userLabel, t) ==
  /\ ~MicrotaskPending
  /\ ResultShown
  /\ IF \E k \in 1..Len(logs) :
          logs[k].message = inputText /\ logs[k].userLabel = userLabel
       THEN /\ t \in now..MaxTime
            /\ Len(logs) < MaxLogs
            /\ UNCHANGED <<screen, inputText, isAnalyzing, result, logs,
                           isRecording, error, hasRecognition, apiKey, calls,
                           recognition, now>>
       ELSE handleFeedback(userLabel, t)

\* a "Mark as Safe" / "Mark as Scam" button of the result block
HandleFeedback(userLabel, t) ==
  /\ ~MicrotaskPending
  /\ ResultShown
  /\ handleFeedback(userLabel, t)

\* exportCSV: no setter is called on either path
exportCSV ==
  UNCHANGED <<screen, inputText, isAnalyzing, result, logs, isRecording,
              error, hasRecognition, apiKey, calls, recognition, now>>

\* the Export CSV button of the text screen's history card
ExportCSV ==
  /\ ~MicrotaskPending
  /\ screen = "text-scan"
  /\ ResultShown
  /\ Len(logs) > 0
  /\ exportCSV


----------------------------------------------------------------------------
(* The risk band of a score, as the Risk Assessment card draws it.         *)

\* getScoreColor with <= in its first test
getScoreColorMutant(score) ==
  IF score <= 30 THEN "#3ba776"
  ELSE IF score < 70 THEN "#f0ad4e"
  ELSE "#d9534f"

getScoreColor(score) ==
  IF score < 30 THEN "#3ba776"
  ELSE IF score < 70 THEN "#f0ad4e"
  ELSE "#d9534f"

\* the caption under the score bar
RiskCaption(score) ==
  IF score < 30 THEN "Safe Message"
  ELSE IF score < 70 THEN "Suspicious - Use Caution"
  ELSE "High Risk - Likely Phishing"

\* what the card shows for a score: the colour of the number and of the
\* bar, and the caption
RiskAssessment(score) ==
  [color |-> getScoreColor(score), caption |-> RiskCaption(score)]

----------------------------------------------------------------------------
(* The CSV text exportCSV hands to the download, character by character.   *)

\* the strings the export prints, as the characters they are made of
Text(str) ==
  CASE str = "Safe" -> <<"S", "a", "f", "e">>
    [] str = "Suspicious" -> <<"S", "u", "s", "p", "i", "c", "i", "o", "u", "s">>
    [] str = "Phishing" -> <<"P", "h", "i", "s", "h", "i", "n", "g">>
    [] str = "Unknown" -> <<"U", "n", "k", "n", "o", "w", "n">>
    [] str = "Hinglish" -> <<"H", "i", "n", "g", "l", "i", "s", "h">>
    [] str = "Hindi, English" ->
         <<"H", "i", "n", "d", "i", ",", " ", "E", "n", "g", "l", "i", "s", "h">>
    [] str = "Hin\"glish" -> <<"H", "i", "n", "\"", "g", "l", "i", "s", "h">>
    [] str = UNDEFINED -> <<"u", "n", "d", "e", "f", "i", "n", "e", "d">>

\* the decimal digits
Digits == <<"0", "1", "2", "3", "4", "5", "6", "7", "8", "9">>

\* Date.prototype.toLocaleString in the en-US locale: date, comma, space,
\* time; the clock reading is the last digit
toLocaleString(t) ==
  <<"1", "/", "1", "/", "2", "0", "2", "6", ",", " ", "9", ":", "0", "0",
    ":", "0">>
    \o <<Digits[t + 1]>>

\* the decimal digits of a number put into a template literal
RECURSIVE NumberToString(_)
NumberToString(n) ==
  IF n < 10 THEN <<Digits[n + 1]>>
  ELSE NumberToString(n \div 10) \o <<Digits[(n % 10) + 1]>>

\* replace('"', '""'): a string pattern replaces the first match only
RECURSIVE ReplaceQuotesMutant(_)
ReplaceQuotesMutant(s) ==
  IF s = << >> THEN << >>
  ELSE IF Head(s) = "\"" THEN <<"\"", "\"">> \o Tail(s)
  ELSE <<Head(s)>> \o ReplaceQuotesMutant(Tail(s))

\* replace(/"/g, '""')
RECURSIVE ReplaceQuotes(_)
ReplaceQuotes(s) ==
  IF s = << >> THEN << >>
  ELSE IF Head(s) = "\"" THEN <<"\"", "\"">> \o ReplaceQuotes(Tail(s))
  ELSE <<Head(s)>> \o ReplaceQuotes(Tail(s))

\* "${...}" in the row's template literal
InQuotes(s) == <<"\"">> \o s \o <<"\"">>

\* the row template with the score in quotes as well
CsvRowMutant(l) ==
  InQuotes(toLocaleString(l.timestamp)) \o <<",">>
    \o InQuotes(ReplaceQuotes(l.message)) \o <<",">>
    \o InQuotes(Text(l.predictedLabel)) \o <<",">>
    \o InQuotes(Text(l.userLabel)) \o <<",">>
    \o InQuotes(Text(l.language)) \o <<",">>
    \o InQuotes(NumberToString(l.score))

\* the template literal of logs.map: only the message is escaped
CsvRow(l) ==
  InQuotes(toLocaleString(l.timestamp)) \o <<",">>
    \o InQuotes(ReplaceQuotes(l.message)) \o <<",">>
    \o InQuotes(Text(l.predictedLabel)) \o <<",">>
    \o InQuotes(Text(l.userLabel)) \o <<",">>
    \o InQuotes(Text(l.language)) \o <<",">>
    \o NumberToString(l.score)

\* Array.prototype.join("\n")
RECURSIVE JoinLines(_)
JoinLines(rows) ==
  IF rows = << >> THEN << >>
  ELSE IF Len(rows) = 1 THEN rows[1]
  ELSE rows[1] \o <<"\n">> \o JoinLines(Tail(rows))

headers ==
  <<"T", "i", "m", "e", "s", "t", "a", "m", "p", ",", "M", "e", "s", "s",
    "a", "g", "e", ",", "P", "r", "e", "d", "i", "c", "t", "e", "d", ",",
    "U", "s", "e", "r", "L", "a", "b", "e", "l", ",", "L", "a", "n", "g",
    "u", "a", "g", "e", ",", "S", "c", "o", "r", "e", "\n">>

csvContent(l) == JoinLines([k \in 1..Len(l) |-> CsvRow(l[k])])

\* nothing is handed to the download
NoBlob == << >>

\* exportCSV without its early return
BlobTextMutant(l) == headers \o csvContent(l)

\* new Blob([headers + csvContent]), or nothing when logs is empty
BlobText(l) == IF Len(l) = 0 THEN NoBlob ELSE headers \o csvContent(l)

----------------------------------------------------------------------------
(* Specifications.  Each step also writes the history record; resultText   *)
(* (the text whose analysis gave the result on show) is kept where the     *)
(* ledger is observed.                                                     *)

\* the history record of a settled call
Settled(i, o) ==
  [op |-> "settle", stale |-> calls[i].stale,
   kind |-> Kind(AnalyzeMessage(calls[i], o))]

\* the handler op ran; the analysed text is not followed
Note(op) == last' = Did(op) /\ UNCHANGED <<resultText, blob, view>>

\* an awaited call without try / finally: a rejection leaves runAnalysis
\* at the await and only the error boundary sees it
CompletionMutant ==
  \E i \in 1..MaxInFlight, o \in Outcomes \cup {NoOutcome} :
    /\ i \in 1..Len(calls)
    /\ IF AnalyzeMessage(calls[i], o).ok
         THEN Settle(i, o)
         ELSE /\ ~calls[i].sent \/ ~MicrotaskPending
              /\ IF calls[i].sent THEN o \in Outcomes ELSE o = NoOutcome
              /\ error' = ErrorAfter(AnalyzeMessage(calls[i], o))
              /\ calls' = Overtake(i)
              /\ UNCHANGED <<screen, inputText, isAnalyzing, result, logs,
                             isRecording, hasRecognition, apiKey,
                             recognition, now>>
    /\ last' = Settled(i, o)
    /\ UNCHANGED <<resultText, blob, view>>

\* a call that is outstanding is answered, in any of the ways it can be,
\* and runAnalysis resumes after its await
Completion ==
  \E i \in 1..MaxInFlight, o \in Outcomes \cup {NoOutcome} :
    Settle(i, o) /\ last' = Settled(i, o) /\ UNCHANGED <<resultText, blob, view>>

\* the session without the ledger controls: every way a call can end,
\* with and without credentials and speech recognition
NextAnalysis ==
  \/ \E s \in Screens : GoTo(s) /\ Note("goto")
  \/ BackHome /\ Note("back")
  \/ \E t \in TypedTexts : TypeText(t) /\ Note("type")
  \/ ReRecord /\ Note("rerecord")
  \/ AnalyzeClick /\ Note(IF AnalyzeDisabled THEN "disabled" ELSE "analyze")
  \/ \E d \in 1..NumDemo : DemoClick(d) /\ Note("demo")
  \/ Completion
  \/ StartRecording /\ Note(IF hasRecognition THEN "start" ELSE "unsupported")
  \/ StopRecording /\ Note("stop")
  \/ \E t \in Transcripts : OnResult(t) /\ Note("transcript")
  \/ OnError /\ Note("speecherror")
  \/ OnEnd /\ Note("speechend")

SpecAnalysis == Init /\ [][NextAnalysis]_vars

\* the same session with a classifier that answers every call in the end:
\* a promise that can settle is not left pending for ever
SpecAnalysisFair == SpecAnalysis /\ WF_vars(Completion)

\* the session driven through the Analyze buttons, the textarea, dictation,
\* navigation and the ledger controls: credentials and speech recognition
\* are present, the classifier answers with one of two objects or fails,
\* and the history record tells the ledger's handlers from the rest
LedgerTexts == {<< >>, <<"h", "i">>}

LedgerOutcomes ==
  {o \in Outcomes : o.value \in {Some(LotteryScam), Some(ScoreTooHigh)}
                    \/ (o.kind = "reject" /\ o.message = MsgTransport)}

InitLedger == Init /\ apiKey /\ hasRecognition

\* a handler that leaves the result alone
Other == last' = Did("other") /\ UNCHANGED <<resultText, blob, view>>

\* a handler that clears the result
Cleared == last' = Did("other") /\ resultText' = << >> /\ UNCHANGED <<blob, view>>

\* the text a settled call leaves as the analysed one
AnalyzedAfter(i, o) ==
  IF AnalyzeMessage(calls[i], o).ok THEN calls[i].text ELSE resultText

NextLedger ==
  \/ \E s \in Screens : GoTo(s) /\ Other
  \/ BackHome /\ Cleared
  \/ \E t \in LedgerTexts : TypeText(t) /\ Other
  \/ ReRecord /\ Cleared
  \/ AnalyzeClick /\ Other
  \/ \E i \in 1..MaxInFlight, o \in LedgerOutcomes :
       Settle(i, o) /\ last' = Did("other") /\ resultText' = AnalyzedAfter(i, o)
                    /\ UNCHANGED <<blob, view>>
  \/ StartRecording /\ Other
  \/ StopRecording /\ Other
  \/ \E t \in LedgerTexts : OnResult(t) /\ Other
  \/ OnError /\ Other
  \/ OnEnd /\ Other
  \/ \E l \in FeedbackLabels, t \in 0..MaxTime :
       HandleFeedback(l, t) /\ last' = Did("feedback")
                            /\ UNCHANGED <<resultText, blob, view>>
  \/ ExportCSV /\ last' = Did("export") /\ UNCHANGED <<resultText, blob, view>>

SpecLedger == InitLedger /\ [][NextLedger]_vars

\* The handlers called in any state, as a driver that holds the handler
\* functions can call them, next to the steps of the ledger's slice.
Threw(op) == [op |-> op, stale |-> FALSE, kind |-> "threw"]

InitHandlers == Init /\ apiKey

NextHandlers ==
  \/ NextLedger
  \/ \E l \in FeedbackLabels, t \in 0..MaxTime :
       /\ ~MicrotaskPending
       /\ handleFeedback(l, t)
       /\ last' = Did("handleFeedback")
       /\ UNCHANGED <<resultText, blob, view>>
  \/ /\ ~MicrotaskPending
     /\ handleStopRecording
     /\ last' = IF StopThrows THEN Threw("handleStopRecording")
                              ELSE Did("handleStopRecording")
     /\ UNCHANGED <<resultText, blob, view>>

SpecHandlers == InitHandlers /\ [][NextHandlers]_vars

\* analyzeMessage called on its own, by a caller other than runAnalysis:
\* any text, with and without credentials, and every way the call can end.
ClientTexts ==
  TypedTexts \cup Transcripts \cup {DEMO_CASES[d] : d \in 1..NumDemo}

InitClient == Init

NextClient ==
  \/ \E m \in ClientTexts :
       /\ ~MicrotaskPending
       /\ Len(calls) < MaxInFlight
       /\ calls' = Append(calls, Request(m))
       /\ last' = Did("analyzeMessage")
       /\ UNCHANGED <<screen, inputText, isAnalyzing, result, logs,
                      isRecording, error, hasRecognition, apiKey,
                      recognition, now, resultText, blob, view>>
  \/ \E i \in 1..MaxInFlight, o \in Outcomes \cup {NoOutcome} :
       /\ i \in 1..Len(calls)
       /\ ~calls[i].sent \/ ~MicrotaskPending
       /\ IF calls[i].sent THEN o \in Outcomes ELSE o = NoOutcome
       /\ calls' = SubSeq(calls, 1, i - 1) \o SubSeq(calls, i + 1, Len(calls))
       /\ last' = [op |-> "settled", stale |-> FALSE,
                   kind |-> Kind(AnalyzeMessage(calls[i], o))]
       /\ UNCHANGED <<screen, inputText, isAnalyzing, result, logs,
                      isRecording, error, hasRecognition, apiKey,
                      recognition, now, resultText, blob, view>>

SpecClient == InitClient /\ [][NextClient]_vars

\* exportCSV as a function of the ledger: every ledger the session can hold
\* within the bounds, and the text the export hands to the download.
CsvMessages == {<<"h", "i">>, <<"\"", "u", "\"">>, <<"a", ",", "\n">>}

CsvPayloads == {LotteryScam, ReasoningMissing}

CsvLogs ==
  {[timestamp |-> t, message |-> m, predictedLabel |-> p.label,
    userLabel |-> u, language |-> p.language, score |-> p.score] :
     t \in 0..MaxTime, m \in CsvMessages, p \in CsvPayloads,
     u \in FeedbackLabels}

Ledgers ==
  {l \in UNION {[1..n -> CsvLogs] : n \in 0..MaxLogs} :
     \A k \in 1..(Len(l) - 1) : l[k].timestamp >= l[k + 1].timestamp}

InitCsv ==
  /\ logs \in Ledgers
  /\ now = IF logs = << >> THEN 0 ELSE logs[1].timestamp
  /\ screen = "home"
  /\ inputText = << >>
  /\ isAnalyzing = FALSE
  /\ result = None
  /\ isRecording = FALSE
  /\ error = NULL
  /\ hasRecognition = TRUE
  /\ apiKey = TRUE
  /\ calls = << >>
  /\ recognition = "inactive"
  /\ resultText = << >>
  /\ last = Did("init")
  /\ blob = NoBlob
  /\ view = None

NextCsv ==
  /\ ~MicrotaskPending
  /\ exportCSV
  /\ blob' = BlobText(logs)
  /\ last' = Did("exportCSV")
  /\ UNCHANGED <<resultText, view>>

SpecCsv == InitCsv /\ [][NextCsv]_vars

\* exportCSV on ledgers whose language is free text of the classifier: the
\* response schema types language as a string and nothing checks what the
\* string holds, so a comma or a double quote can stand in it.
CommaInLanguage == [LotteryScam EXCEPT !.language = "Hindi, English"]

QuoteInLanguage == [LotteryScam EXCEPT !.language = "Hin\"glish"]

FreeTextPayloads == {LotteryScam, CommaInLanguage, QuoteInLanguage}

FreeTextLogs ==
  {[timestamp |-> t, message |-> <<"h", "i">>, predictedLabel |-> p.label,
    userLabel |-> u, language |-> p.language, score |-> p.score] :
     t \in 0..MaxTime, p \in FreeTextPayloads, u \in FeedbackLabels}

FreeTextLedgers ==
  {l \in UNION {[1..n -> FreeTextLogs] : n \in 0..MaxLogs} :
     \A k \in 1..(Len(l) - 1) : l[k].timestamp >= l[k + 1].timestamp}

InitFreeText ==
  /\ logs \in FreeTextLedgers
  /\ now = IF logs = << >> THEN 0 ELSE logs[1].timestamp
  /\ screen = "home"
  /\ inputText = << >>
  /\ isAnalyzing = FALSE
  /\ result = None
  /\ isRecording = FALSE
  /\ error = NULL
  /\ hasRecognition = TRUE
  /\ apiKey = TRUE
  /\ calls = << >>
  /\ recognition = "inactive"
  /\ resultText = << >>
  /\ last = Did("init")
  /\ blob = NoBlob
  /\ view = None

SpecFreeText == InitFreeText /\ [][NextCsv]_vars

\* The Risk Assessment card of the text screen as a function of the score:
\* a result with any score of the schema's range is on show and is drawn.
InitBand ==
  /\ \E s \in 0..100 : result = Some([LotteryScam EXCEPT !.score = s])
  /\ screen = "text-scan"
  /\ inputText = <<"h", "i">>
  /\ isAnalyzing = FALSE
  /\ logs = << >>
  /\ isRecording = FALSE
  /\ error = NULL
  /\ hasRecognition = TRUE
  /\ apiKey = TRUE
  /\ calls = << >>
  /\ recognition = "inactive"
  /\ now = 0
  /\ resultText = <<"h", "i">>
  /\ last = Did("init")
  /\ blob = << >>
  /\ view = None

NextBand ==
  /\ ResultShown
  /\ view' = Some(RiskAssessment(result[1].score))
  /\ last' = Did("render")
  /\ UNCHANGED <<screen, inputText, isAnalyzing, result, logs, isRecording,
                 error, hasRecognition, apiKey, calls, recognition, now,
                 resultText, blob>>

SpecBand == InitBand /\ [][NextBand]_vars

----------------------------------------------------------------------------
(* Properties of the analysis flow, checked under SpecAnalysis.            *)

\* every character of s is white space (the empty text included)
AllWhitespace(s) == \A k \in 1..Len(s) : s[k] \in WhiteSpace

\* the classifier calls that are outstanding
InFlight == {k \in 1..Len(calls) : calls[k].sent}

\* the messages a failed analysis can leave in the error slot
AnalysisMessages == {MsgNoKey, MsgTransport, MsgSyntax, MsgAnalysisDefault}

\* C1: a response to a submit that a later submit has overtaken (the later
\* one was issued while it was outstanding and has already been answered)
\* never changes currentResult.
StaleResponseDiscarded ==
  [][(last'.op = "settle" /\ last'.stale) => result' = result]_vars

\* C2: in every reachable state at most one classifier call is in flight.
AtMostOneInFlight == Cardinality(InFlight) <= 1

\* C3: a click on Analyze while the input is empty or all white space starts
\* no classifier call and leaves currentResult, lastError and isAnalyzing as
\* they were.
BlankInputRejected ==
  [][(last'.op \in {"analyze", "disabled"} /\ AllWhitespace(inputText))
       => UNCHANGED <<result, error, isAnalyzing, calls>>]_vars

\* a blank, non-empty input was submitted with a result on show and nothing
\* in flight
BlankInputRejectedWitness ==
  /\ last.op = "disabled"
  /\ inputText = <<" ">>
  /\ ~isAnalyzing
  /\ result # None
  /\ calls = << >>

\* C4: once a call has been answered with a JSON object that breaks the
\* AnalysisResult schema, lastError is set and currentResult holds no
\* schema-breaking object.
SchemaViolationRejected ==
  (last.op = "settle" /\ last.kind = "violating")
    => (error # NULL /\ (result = None \/ Conforms(result[1])))

\* C5: the step that completes a call writes exactly one of currentResult
\* (when an object was decoded) and lastError (when none was), and leaves
\* isAnalyzing false.
CompletionWritesOne ==
  [][last'.op = "settle" =>
       /\ isAnalyzing' = FALSE
       /\ \/ /\ last'.kind \in {"conforming", "violating"}
             /\ result' # None
             /\ Conforms(result'[1]) <=> last'.kind = "conforming"
             /\ error' = error
          \/ /\ last'.kind = "failed"
             /\ error' \in AnalysisMessages
             /\ result' = result]_vars

\* a call that was not the only one outstanding has completed with a result
CompletionWritesOneWitness ==
  /\ last.op = "settle"
  /\ last.kind = "conforming"
  /\ result # None
  /\ ~isAnalyzing
  /\ calls # << >>

\* C6: a failed analysis puts its message in lastError and resets
\* isAnalyzing, and neither its submit step nor its failing completion
\* changes currentResult.
FailureKeepsResult ==
  [][/\ (last'.op = "settle" /\ last'.kind = "failed")
          => /\ result' = result
             /\ error' \in AnalysisMessages
             /\ apiKey => error' # MsgNoKey
             /\ ~apiKey => error' = MsgNoKey
             /\ isAnalyzing' = FALSE
     /\ last'.op \in {"analyze", "demo"} => result' = result]_vars

\* an analysis has failed while an earlier result was on show
FailureKeepsResultWitness ==
  /\ last.op = "settle"
  /\ last.kind = "failed"
  /\ result # None
  /\ error = MsgTransport
  /\ ~isAnalyzing

\* C7: right after an accepted submit and right after an accepted
\* startDictation, lastError is null.
ErrorClearedOnStart ==
  last.op \in {"analyze", "demo", "start"} => error = NULL

\* a submit was accepted while another call was outstanding
ErrorClearedOnStartWitness ==
  /\ last.op = "demo"
  /\ error = NULL
  /\ isAnalyzing
  /\ Len(calls) = 2

----------------------------------------------------------------------------
(* Properties of the ledger, checked under SpecLedger.                     *)

\* C8: the entry handleFeedback has just put in the ledger carries as its
\* message the text whose analysis produced the result it records.
LedgerMessageIsAnalyzedText ==
  (last.op = "feedback" /\ logs # << >>) => logs[1].message = resultText

\* timestamps do not grow from the front of the ledger to its back
NewestFirst(l) ==
  \A i, j \in 1..Len(l) : i < j => l[i].timestamp >= l[j].timestamp

\* C9: handleFeedback puts its entry at the front of the ledger, in front
\* of the entries that were there, so the ledger reads most recent first.
LedgerMostRecentFirst ==
  [][/\ last'.op = "feedback"
          => /\ Len(logs') = Len(logs) + 1
             /\ Tail(logs') = logs
             /\ logs'[1].timestamp = now'
             /\ logs'[1].score = result[1].score
     /\ NewestFirst(logs')]_vars

\* feedback F1 on a result R1, then feedback F2 on a later, different
\* result R2: F2 stands in front of F1
LedgerMostRecentFirstWitness ==
  /\ last.op = "feedback"
  /\ Len(logs) = 2
  /\ logs[1].timestamp > logs[2].timestamp
  /\ logs[1].score # logs[2].score
  /\ logs[1].message # logs[2].message

\* l with its k-th entry taken out
Without(l, k) == SubSeq(l, 1, k - 1) \o SubSeq(l, k + 1, Len(l))

\* C10: every step leaves the ledger as it is or adds exactly one entry
\* to it, and the entries it already held stay in it, unchanged and in
\* their order.
LedgerAppendOnly ==
  [][\/ logs' = logs
     \/ /\ Len(logs') = Len(logs) + 1
        /\ \E k \in 1..Len(logs') : Without(logs', k) = logs]_vars

\* two entries are in the ledger and a later analysis has replaced the
\* result they were taken from
LedgerAppendOnlyWitness ==
  /\ last.op = "other"
  /\ Len(logs) = 2
  /\ result # None
  /\ result[1].score # logs[1].score
  /\ result[1].score # logs[2].score

\* the session state, which the handlers read and write
session == <<screen, inputText, isAnalyzing, result, logs, isRecording,
             error, calls, recognition>>

\* C11: handleFeedback called while there is no result changes nothing:
\* the ledger and the rest of the session state are as before the call.
FeedbackWithoutResultIsNoOp ==
  [][last'.op = "handleFeedback" /\ result = None
       => UNCHANGED session]_vars

\* handleFeedback has run after the result of a recorded analysis was
\* cleared: the ledger still holds what it held
FeedbackWithoutResultIsNoOpWitness ==
  /\ last.op = "handleFeedback"
  /\ result = None
  /\ Len(logs) = 1

\* C12: when a call settles with an object from the classifier, result
\* becomes that object, every field and both lists as the classifier sent
\* them, and isAnalyzing becomes false.
SuccessStoresClassifierObject ==
  [][last'.op = "settle" =>
       \A i \in 1..Len(calls), o \in Outcomes :
         o.kind = "json" /\ calls[i].sent /\ Settle(i, o)
           => result' = o.value /\ isAnalyzing' = FALSE]_vars

\* the only call outstanding has settled with the lottery-scam object
SuccessStoresClassifierObjectWitness ==
  /\ last.op = "settle"
  /\ last.kind = "conforming"
  /\ calls = << >>
  /\ result = Some(LotteryScam)
  /\ result[1].triggeredRules = <<"Reward", "BadLink">>
  /\ result[1].highlightedTerms = <<"lottery prize", "Bank Details">>
  /\ ~isAnalyzing

\* A reader of CSV text: fields are separated by commas and records by
\* newlines; a field that opens with a double quote runs to its closing
\* quote, commas and newlines included, and "" inside it stands for one
\* quote.  A cell is the field's text and whether it was quoted.
Cell(quoted, text) == [quoted |-> quoted, text |-> text]

\* the places of s that hold c outside double quotes: an even number of
\* quotes stands before them
Breaks(s, c) ==
  {i \in 1..Len(s) :
     s[i] = c /\ Cardinality({j \in 1..i : s[j] = "\""}) % 2 = 0}

\* the pieces of s between its breaks
Split(s, c) ==
  LET B == Breaks(s, c)
      n == Cardinality(B)
      Pos(k) == IF k = 0 THEN 0
                ELSE IF k > n THEN Len(s) + 1
                ELSE CHOOSE i \in B : Cardinality({j \in B : j <= i}) = k
  IN [k \in 1..(n + 1) |-> SubSeq(s, Pos(k - 1) + 1, Pos(k) - 1)]

\* "" inside a quoted field stands for one quote
RECURSIVE Undouble(_)
Undouble(s) ==
  IF Len(s) < 2 THEN s
  ELSE IF s[1] = "\"" /\ s[2] = "\""
    THEN <<"\"">> \o Undouble(SubSeq(s, 3, Len(s)))
  ELSE <<s[1]>> \o Undouble(Tail(s))

ReadField(f) ==
  IF Len(f) >= 2 /\ f[1] = "\"" /\ f[Len(f)] = "\""
    THEN Cell(TRUE, Undouble(SubSeq(f, 2, Len(f) - 1)))
    ELSE Cell(FALSE, f)

ParseCSV(s) ==
  IF s = << >> THEN << >>
  ELSE LET lines == Split(s, "\n") IN
    [k \in 1..Len(lines) |->
       LET fields == Split(lines[k], ",") IN
         [j \in 1..Len(fields) |-> ReadField(fields[j])]]

\* the column names of the header row
ColumnNames ==
  <<<<"T", "i", "m", "e", "s", "t", "a", "m", "p">>,
    <<"M", "e", "s", "s", "a", "g", "e">>,
    <<"P", "r", "e", "d", "i", "c", "t", "e", "d">>,
    <<"U", "s", "e", "r", "L", "a", "b", "e", "l">>,
    <<"L", "a", "n", "g", "u", "a", "g", "e">>,
    <<"S", "c", "o", "r", "e">>>>

\* the cells of an entry's row: five quoted fields and the score as a bare
\* number
RowCells(l) ==
  <<Cell(TRUE, toLocaleString(l.timestamp)), Cell(TRUE, l.message),
    Cell(TRUE, Text(l.predictedLabel)), Cell(TRUE, Text(l.userLabel)),
    Cell(TRUE, Text(l.language)), Cell(FALSE, NumberToString(l.score))>>

\* C13: the text exported from a non-empty ledger reads as the header row
\* Timestamp,Message,Predicted,UserLabel,Language,Score followed by one row
\* for each ledger entry, in the ledger's order, whose first five fields are
\* quoted and whose score is a bare number.
ExportHeaderAndRows ==
  last.op = "exportCSV" /\ logs # << >> =>
    LET rows == ParseCSV(blob) IN
      /\ Len(rows) = Len(logs) + 1
      /\ rows[1] = [k \in 1..6 |-> Cell(FALSE, ColumnNames[k])]
      /\ \A k \in 1..Len(logs) :
           /\ rows[k + 1] = RowCells(logs[k])
           /\ \A j \in 1..Len(rows[k + 1][6].text) :
                \E d \in 1..10 : rows[k + 1][6].text[j] = Digits[d]

\* a ledger of two entries recorded at different times has been exported
ExportHeaderAndRowsWitness ==
  /\ last.op = "exportCSV"
  /\ Len(logs) = 2
  /\ logs[1].timestamp > logs[2].timestamp
  /\ logs[1].score # logs[2].score
  /\ blob # NoBlob

\* the message in double quotes, each of its own double quotes doubled
RECURSIVE Doubled(_)
Doubled(m) ==
  IF m = << >> THEN << >>
  ELSE (IF m[Len(m)] = "\"" THEN Append(Doubled(SubSeq(m, 1, Len(m) - 1)), "\"")
        ELSE Doubled(SubSeq(m, 1, Len(m) - 1))) \o <<m[Len(m)]>>

\* C14: the exported message field is the message in double quotes with
\* each quote inside it doubled; reading the field, and reading the row it
\* stands in, gives the message back.
MessageFieldRoundTrip ==
  last.op = "exportCSV" =>
    LET rows == ParseCSV(blob) IN
      \A k \in 1..Len(logs) :
        LET m == logs[k].message
            field == InQuotes(ReplaceQuotes(m)) IN
          /\ field = <<"\"">> \o Doubled(m) \o <<"\"">>
          /\ ParseCSV(field) = <<<<Cell(TRUE, m)>>>>
          /\ Len(rows) > k
          /\ Len(rows[k + 1]) > 1
          /\ rows[k + 1][2] = Cell(TRUE, m)

\* an exported ledger holds the message "u" (with its quotes) and a message
\* with a comma and a newline
MessageFieldRoundTripWitness ==
  /\ last.op = "exportCSV"
  /\ blob # NoBlob
  /\ \E k \in 1..Len(logs) : logs[k].message = <<"\"", "u", "\"">>
  /\ \E k \in 1..Len(logs) : logs[k].message = <<"a", ",", "\n">>

\* C15: exportCSV on an empty ledger hands nothing to the download and
\* changes no state, and on any ledger it leaves the ledger as it is.
ExportEmptyIsNoOp ==
  [][last'.op = "exportCSV" =>
       /\ logs' = logs
       /\ logs = << >> => blob' = NoBlob /\ UNCHANGED session]_vars

\* exportCSV has run on the empty ledger
ExportEmptyIsNoOpWitness ==
  /\ last.op = "exportCSV"
  /\ logs = << >>
  /\ blob = NoBlob

\* C16: once handleStopRecording has been issued for a recording session,
\* no transcript of that session is applied to inputText.
StopDiscardsTranscript ==
  [][recognition = "stopping" /\ last'.op = "transcript"
       => inputText' = inputText]_vars

\* C17: handleStopRecording right after handleStartRecording, with no
\* speech event in between, leaves isRecording false and inputText as it
\* was.
CancelLeavesIdle ==
  [][last.op = "start" /\ last'.op = "stop"
       => isRecording' = FALSE /\ inputText' = inputText]_vars

\* recording was stopped before any speech event, with a typed text in the
\* input
CancelLeavesIdleWitness ==
  /\ last.op = "stop"
  /\ recognition = "stopping"
  /\ ~isRecording
  /\ inputText = <<"h", "i">>

\* C18: without the speech capability isRecording is never true and the
\* recognizer is never started; handleStartRecording leaves the
\* capability-absent message in error, and that message is not the one of
\* a failure during recording.
StartFailsWithoutCapability ==
  /\ ~hasRecognition => ~isRecording /\ recognition = "inactive"
  /\ last.op = "unsupported" => error = MsgSpeechUnsupported
  /\ MsgSpeechUnsupported # MsgSpeechFailed

\* handleStartRecording has run without the capability
StartFailsWithoutCapabilityWitness ==
  /\ last.op = "unsupported"
  /\ ~hasRecognition
  /\ ~isRecording
  /\ error = MsgSpeechUnsupported

\* C19: when the recognizer reports an error during a recording,
\* isRecording becomes false, error holds the speech-failure message and
\* inputText is as it was.
SpeechErrorResets ==
  [][last'.op = "speecherror"
       => /\ isRecording' = FALSE
          /\ error' = MsgSpeechFailed
          /\ error' # NULL
          /\ inputText' = inputText]_vars

\* a recording over a typed text has failed
SpeechErrorResetsWitness ==
  /\ last.op = "speecherror"
  /\ ~isRecording
  /\ error = MsgSpeechFailed
  /\ inputText = <<"h", "i">>

\* C20: handleStopRecording while isRecording is false changes no session
\* state and throws nothing, with or without the speech capability.
StopWhileIdleIsNoOp ==
  [][last'.op = "handleStopRecording" /\ ~isRecording
       => UNCHANGED session /\ last'.kind # "threw"]_vars

----------------------------------------------------------------------------
(* Properties of sessions, credentials and the view.                       *)

\* C21: handleStartRecording never calls start() on the recognizer while a
\* recording session it started earlier has not ended.
OneRecordingSession ==
  [][last'.op = "start" => recognition = "inactive"]_vars

\* C22: a submit that is accepted starts exactly one call (a classifier
\* call when credentials are present), the completion of a call starts
\* none, and no other step starts one: nothing is sent again after a
\* failure until the user submits.
OneCallPerSubmit ==
  [][/\ last'.op \in {"analyze", "demo"} =>
          /\ Len(calls') = Len(calls) + 1
          /\ SubSeq(calls', 1, Len(calls)) = calls
          /\ calls'[Len(calls')].sent = apiKey
     /\ last'.op = "settle" => Len(calls') = Len(calls) - 1
     /\ last'.op \notin {"analyze", "demo", "settle"} => calls' = calls]_vars

\* the only call has failed in transport and nothing is outstanding
OneCallPerSubmitWitness ==
  /\ last.op = "settle"
  /\ last.kind = "failed"
  /\ apiKey
  /\ error = MsgTransport
  /\ calls = << >>
  /\ ~isAnalyzing

\* C23: without credentials no call reaches the classifier, and the submit
\* ends with the missing-key message in error, result as it was and
\* isAnalyzing false.
MissingKeyFails ==
  [][~apiKey =>
       /\ \A k \in 1..Len(calls') : ~calls'[k].sent
       /\ last'.op = "settle" =>
            /\ error' = MsgNoKey
            /\ result' = result
            /\ isAnalyzing' = FALSE]_vars

\* a submit without credentials has ended
MissingKeyFailsWitness ==
  /\ ~apiKey
  /\ last.op = "settle"
  /\ last.kind = "failed"
  /\ error = MsgNoKey
  /\ result = None
  /\ ~isAnalyzing
  /\ calls = << >>

\* C24: analyzeMessage called with an empty or all-white-space message
\* never sends a request to the classifier.
ClientRejectsBlank ==
  \A k \in 1..Len(calls) : AllWhitespace(calls[k].text) => ~calls[k].sent

\* C25: the back button and the Re-record button leave result null and
\* inputText empty; the back button also leaves error null.
LeavingClearsResult ==
  [][/\ last'.op \in {"back", "rerecord"} =>
          result' = None /\ inputText' = << >>
     /\ last'.op = "back" => error' = NULL /\ screen' = "home"]_vars

\* Re-record was pressed on the voice screen; the error of an earlier
\* failure is still there
LeavingClearsResultWitness ==
  /\ last.op = "rerecord"
  /\ screen = "voice-scan"
  /\ result = None
  /\ inputText = << >>
  /\ error # NULL

\* C26: a feedback button is pressed only in a state with a result, and
\* the Export CSV button only in a state with a non-empty ledger.
ControlsNeedData ==
  [][/\ last'.op = "feedback" => result # None
     /\ last'.op = "export" => logs # << >>]_vars

\* the ledger of one entry has been exported with its result on show
ControlsNeedDataWitness ==
  /\ last.op = "export"
  /\ Len(logs) = 1
  /\ result # None
  /\ screen = "text-scan"

\* C27: in every state result is null or holds a label among Safe,
\* Suspicious, Phishing and a score within 0..100, and so does every entry
\* of the ledger, whatever the classifier has sent.
ResultAndLedgerWellFormed ==
  /\ result = None
       \/ (result[1].label \in Labels /\ result[1].score \in 0..100)
  /\ \A k \in 1..Len(logs) :
       logs[k].predictedLabel \in Labels /\ logs[k].score \in 0..100

\* C28: a call that was in flight when the user pressed the back button or
\* Re-record does not set result when it is answered.
AbandonedCallLeavesResultNull ==
  [][last.op \in {"back", "rerecord"} /\ last'.op = "settle"
       => result' = None]_vars

\* C29: a submit and the completion of a call leave isRecording as it
\* was, and the record / stop control and the recognizer's events leave
\* isAnalyzing as it was.
FlagsIndependent ==
  [][/\ last'.op \in {"analyze", "disabled", "demo", "settle"}
          => isRecording' = isRecording
     /\ last'.op \in {"start", "unsupported", "stop", "transcript",
                      "speecherror", "speechend"}
          => isAnalyzing' = isAnalyzing]_vars

\* a recording was started while a call is in flight: both flags are on
FlagsIndependentWitness ==
  /\ last.op = "start"
  /\ isAnalyzing
  /\ isRecording
  /\ calls # << >>

\* the other three combinations of the flags, each right after an event of
\* the other operation; each is a reachable state
BothFlagsOff == ~isAnalyzing /\ ~isRecording /\ last.op = "transcript"

OnlyAnalyzing == isAnalyzing /\ ~isRecording /\ last.op = "transcript"

OnlyRecording == ~isAnalyzing /\ isRecording /\ last.op = "settle"

\* the band of a score, by its boundaries 29/30 and 69/70
Band(s) ==
  IF s \in 0..29 THEN "low" ELSE IF s \in 30..69 THEN "medium" ELSE "high"

BandColor == [low |-> "#3ba776", medium |-> "#f0ad4e", high |-> "#d9534f"]

BandCaption ==
  [low |-> "Safe Message", medium |-> "Suspicious - Use Caution",
   high |-> "High Risk - Likely Phishing"]

\* C30: for every score from 0 to 100 the card shows the colour and the
\* caption of the score's band (low below 30, medium from 30 to 69, high
\* from 70), so the colour and the caption always name the same band.
RiskBandExact ==
  view # None =>
    /\ result[1].score \in 0..100
    /\ view[1].color = BandColor[Band(result[1].score)]
    /\ view[1].caption = BandCaption[Band(result[1].score)]

\* the card was drawn for the score 69, the last of the medium band
RiskBandExactWitness ==
  /\ last.op = "render"
  /\ view # None
  /\ result[1].score = 69
  /\ view[1].color = "#f0ad4e"
  /\ view[1].caption = "Suspicious - Use Caution"

----------------------------------------------------------------------------
(* Properties of the busy flag, of completion and of the frames.           *)

\* C31: isAnalyzing is true exactly in the states where a call started by a
\* submit has not completed yet.
AnalyzingIffInFlight == isAnalyzing <=> calls # << >>

\* C32: right after a call has completed with a result, error is null.
SuccessLeavesNoError ==
  [][last'.op = "settle" /\ last'.kind \in {"conforming", "violating"}
       => error' = NULL]_vars

\* C33: when every call is answered in the end, isAnalyzing becomes false
\* again after each accepted submit, whether the call succeeds or fails.
SubmitTerminates == isAnalyzing ~> ~isAnalyzing

\* a submit whose call was rejected has ended and the busy flag is off
SubmitTerminatesWitness ==
  /\ last.op = "settle"
  /\ last.kind = "failed"
  /\ ~isAnalyzing
  /\ calls = << >>

\* C34: a delivered transcript replaces the whole input text and turns
\* isRecording off; result, error, isAnalyzing and the ledger are unchanged.
TranscriptReplacesInput ==
  [][last'.op = "transcript"
       => /\ inputText' \in Transcripts
          /\ isRecording' = FALSE
          /\ UNCHANGED <<result, error, isAnalyzing, logs>>]_vars

\* a transcript arrived over typed text that is still being analysed
TranscriptReplacesInputWitness ==
  /\ last.op = "transcript"
  /\ inputText \in Transcripts
  /\ ~isRecording
  /\ isAnalyzing
  /\ calls # << >>
  /\ calls[1].text = <<"h", "i">>

\* C35: feedback on a result that is shown changes only the ledger, which
\* grows by one entry each time, also when the same mark is repeated.
FeedbackChangesLedgerOnly ==
  [][last'.op = "feedback"
       => /\ result # None
          /\ Len(logs') = Len(logs) + 1
          /\ UNCHANGED <<inputText, result, error, isAnalyzing, isRecording>>]_vars

\* the same mark was given twice on one result and the ledger holds both
FeedbackChangesLedgerOnlyWitness ==
  /\ last.op = "feedback"
  /\ Len(logs) >= 2
  /\ logs[1].message = logs[2].message
  /\ logs[1].userLabel = logs[2].userLabel
  /\ logs[1].predictedLabel = logs[2].predictedLabel
  /\ logs[1].score = logs[2].score
  /\ logs[1].timestamp = logs[2].timestamp

\* C36: every exported row reads back as six fields that hold the entry's
\* timestamp, message, predicted label, user label, language and score, also
\* when the language holds a comma or a double quote.
RowsReadBack ==
  last.op = "exportCSV" =>
    LET rows == ParseCSV(blob) IN
      \A k \in 1..Len(logs) :
        /\ Len(rows) > k
        /\ Len(rows[k + 1]) = 6
        /\ \A j \in 1..6 : rows[k + 1][j].text = RowCells(logs[k])[j].text

\* the same with the double quote left out of the languages: the comma of
\* the timestamp and of the language stand inside quotes and read back
RowsReadBackWithoutQuote ==
  (\A k \in 1..Len(logs) : logs[k].language # "Hin\"glish") => RowsReadBack

\* a ledger with a comma in a language has been exported
CommaLanguageExported ==
  /\ last.op = "exportCSV"
  /\ blob # NoBlob
  /\ \E k \in 1..Len(logs) : logs[k].language = "Hindi, English"

====
